---- MODULE Spec2Model ----
(***************************************************************************)
(* Contact-management REST backend: the contact repository                 *)
(* (src/src/repository/contacts.py) over a relational table of contacts,   *)
(* and the HTTP routes of src/src/routes/contacts.py that call it.         *)
(*                                                                         *)
(* The table is the set `contacts` of rows; `dialect` is the SQL engine    *)
(* behind the session (fixed for a run by the database URL).  `last` is    *)
(* the record of the most recent call: its inputs, what it returned, and   *)
(* the table as it was before the call.                                    *)
(*                                                                         *)
(* `users` is the table of user accounts (src/src/repository/users.py).    *)
(* `handlers` are requests in flight, each at a step of its handler, and   *)
(* `sessions` the storage sessions get_db (src/src/database/db.py) has     *)
(* made for them.  `window` counts the list requests of the current        *)
(* rate-limit window.                                                      *)
(***************************************************************************)
EXTENDS Integers, Sequences, FiniteSets, TLC

VARIABLES contacts, dialect, last, users, handlers, sessions, window

vars == <<contacts, dialect, last, users, handlers, sessions, window>>

(* ---------------------------------------------------------------- bounds *)

\* Contact ids the store can assign are 1..MaxId.
MaxId == 2

\* Tables drawn for the birthday query hold rows with ids 1..MaxRows.
MaxRows == 3

(* ------------------------------------------------------- values and inputs *)

\* Python's None: an absent result, an unused field of `last`.
None == [none |-> TRUE]

\* datetime.date(y, m, d)
Date(y, m, d) == [year |-> y, month |-> m, day |-> d]

\* Ids of the users that own contacts and make requests.
Users == {1, 2}

\* Primary keys the store hands out; callers ask for these too (an id is
\* missing whenever no stored row has it).
Ids == 1..MaxId

\* Request bodies (ContactModel): the five editable fields.
ContactModel(fn, sn, em, ph, bd) ==
    [first_name |-> fn, second_name |-> sn, email |-> em, phone |-> ph,
     birth_date |-> bd]

Bodies ==
    { ContactModel("A", "B", "a@b.com", "123", Date(2000, 2, 1)),
      ContactModel("C", "D", "c@d.com", "456", Date(2000, 2, 5)),
      ContactModel("A", "D", "a@b.com", "789", Date(2000, 2, 20)) }

\* Bodies of the rows in the tables drawn for the birthday query: the
\* above and one born at the end of January.
BirthdayBodies ==
    Bodies \cup { ContactModel("E", "F", "e@f.com", "000", Date(1990, 1, 30)) }

\* (start_date, end_date) pairs the birthday query is asked.
Ranges ==
    { <<Date(2024, 2, 1), Date(2024, 2, 10)>>,
      <<Date(2024, 2, 5), Date(2024, 2, 20)>>,
      <<Date(2024, 1, 28), Date(2024, 2, 14)>>,
      <<Date(2024, 1, 25), Date(2024, 2, 1)>>,
      <<Date(2024, 2, 3), Date(2024, 3, 10)>>,
      <<Date(2023, 12, 28), Date(2024, 1, 30)>> }

\* limit and offset query parameters of list requests.
Limits == {-1, 0, 1, 500, 501}
Offsets == {-1, 0, 1}

\* SQL engines the session may be bound to.
Dialects == {"sqlite", "postgresql"}

(* ------------------------------------------------------------ the table *)

\* Contact(**body.dict(), user=current_user), with the primary key the
\* store assigned on commit/refresh.
Contact(body, current_user, id) ==
    [id |-> id,
     first_name |-> body.first_name,
     second_name |-> body.second_name,
     email |-> body.email,
     phone |-> body.phone,
     birth_date |-> body.birth_date,
     user_id |-> current_user]

\* The session handed to a repository function: its engine and the table.
Session(d, rows) == [dialect |-> d, contacts |-> rows]

\* The row of least primary key.
MinRow(S) == CHOOSE r \in S : \A q \in S : r.id <= q.id

\* db.query(Contact): the rows in the order the engine scans them
\* (primary-key order).  Query.filter(criterion) is SelectSeq on them.
RECURSIVE query(_)
query(S) ==
    IF S = {} THEN <<>>
    ELSE LET r == MinRow(S) IN <<r>> \o query(S \ {r})

\* Query.first(): the first row, or None.
first(rows) == IF rows = <<>> THEN None ELSE Head(rows)

(* ----------------------------------------------------- read operations *)

get_contact_by_id_unscoped(contact_id, user, db) ==
    LET criterion(c) == c.id = contact_id
    IN  first(SelectSeq(query(db.contacts), criterion))

\* contacts.py get_contact_by_id: filter(and_(id == contact_id,
\* user_id == user.id)).first()
get_contact_by_id(contact_id, user, db) ==
    LET criterion(c) == c.id = contact_id /\ c.user_id = user
    IN  first(SelectSeq(query(db.contacts), criterion))

get_contact_by_email_unscoped(email, user, db) ==
    LET criterion(c) == c.email = email
    IN  first(SelectSeq(query(db.contacts), criterion))

\* contacts.py get_contact_by_email: filter(and_(email == email,
\* user_id == user.id)).first()
get_contact_by_email(email, user, db) ==
    LET criterion(c) == c.email = email /\ c.user_id = user
    IN  first(SelectSeq(query(db.contacts), criterion))

\* contacts.py get_contact_by_phone
get_contact_by_phone(phone, user, db) ==
    LET criterion(c) == c.phone = phone /\ c.user_id = user
    IN  first(SelectSeq(query(db.contacts), criterion))

\* contacts.py get_contact_by_first_name
get_contact_by_first_name(first_name, user, db) ==
    LET criterion(c) == c.first_name = first_name /\ c.user_id = user
    IN  first(SelectSeq(query(db.contacts), criterion))

\* contacts.py get_contact_by_second_name
get_contact_by_second_name(second_name, user, db) ==
    LET criterion(c) == c.second_name = second_name /\ c.user_id = user
    IN  first(SelectSeq(query(db.contacts), criterion))

\* contacts.py get_contact_by_birth_date
get_contact_by_birth_date(birth_date, user, db) ==
    LET criterion(c) == c.birth_date = birth_date /\ c.user_id = user
    IN  first(SelectSeq(query(db.contacts), criterion))

\* LIMIT/OFFSET with a negative operand: PostgreSQL rejects the statement,
\* SQLite reads a negative LIMIT as no limit and a negative OFFSET as 0.
rejects_negative(db) == db.dialect = "postgresql"

\* Query.limit(limit).offset(offset).all() on an engine that ran the
\* statement: skip `offset` rows, then keep at most `limit` of them.
limit_offset(rows, limit, offset) ==
    LET skip == IF offset < 0 THEN 0 ELSE offset
        upto == IF limit < 0 THEN Len(rows)
                ELSE IF skip + limit < Len(rows) THEN skip + limit
                ELSE Len(rows)
    IN  SubSeq(rows, skip + 1, upto)

\* contacts.py get_contacts:
\* filter(user_id == user.id).limit(limit).offset(offset).all();
\* `error` is the engine refusing the statement (an SQLAlchemyError).
get_contacts(limit, offset, user, db) ==
    LET criterion(c) == c.user_id = user
    IN  IF (limit < 0 \/ offset < 0) /\ rejects_negative(db)
        THEN [error |-> TRUE, contacts |-> None]
        ELSE [error |-> FALSE,
              contacts |-> limit_offset(SelectSeq(query(db.contacts), criterion),
                                        limit, offset)]

\* sqlalchemy extract('day', d), extract('month', d)
extract(field, d) == IF field = "day" THEN d.day ELSE d.month

between_exclusive(x, lo, hi) == lo <= x /\ x < hi

between_wrapping(x, lo, hi) ==
    IF lo <= hi THEN lo <= x /\ x <= hi ELSE lo <= x \/ x <= hi

\* SQL  x BETWEEN lo AND hi  (both ends included)
between(x, lo, hi) == lo <= x /\ x <= hi

\* The parameters contacts.py declares for get_contacts_birthday.
get_contacts_birthday_params == <<"start_date", "end_date", "db">>

\* contacts.py get_contacts_birthday: the rows whose birth month is the
\* month of start_date and whose birth day lies between the day of
\* start_date and the day of end_date.  No owner criterion.
get_contacts_birthday(start_date, end_date, db) ==
    LET birth_day(c) == extract("day", c.birth_date)
        birth_month(c) == extract("month", c.birth_date)
        criterion(c) ==
            /\ birth_month(c) = extract("month", start_date)
            /\ between(birth_day(c), extract("day", start_date),
                       extract("day", end_date))
    IN  SelectSeq(query(db.contacts), criterion)

(* ------------------------------------------------------------- mutations *)

create_wrong_owner(body, current_user, db, id) ==
    LET contact == Contact(body, CHOOSE u \in Users : u # current_user, id)
    IN  [contact |-> contact, contacts |-> db.contacts \cup {contact}]

\* contacts.py create: build the row, add, commit, refresh; `id` is the
\* primary key the store assigns.
create(body, current_user, db, id) ==
    LET contact == Contact(body, current_user, id)
    IN  [contact |-> contact, contacts |-> db.contacts \cup {contact}]

update_unscoped(contact_id, body, user, db) ==
    LET contact == get_contact_by_id_unscoped(contact_id, user, db)
    IN  IF contact # None
        THEN LET updated == [contact EXCEPT
                                !.first_name = body.first_name,
                                !.second_name = body.second_name,
                                !.email = body.email,
                                !.phone = body.phone,
                                !.birth_date = body.birth_date]
             IN  [contact |-> updated,
                  contacts |-> (db.contacts \ {contact}) \cup {updated}]
        ELSE [contact |-> None, contacts |-> db.contacts]

update_skips_phone(contact_id, body, user, db) ==
    LET contact == get_contact_by_id(contact_id, user, db)
    IN  IF contact # None
        THEN LET updated == [contact EXCEPT
                                !.first_name = body.first_name,
                                !.second_name = body.second_name,
                                !.email = body.email,
                                !.birth_date = body.birth_date]
             IN  [contact |-> updated,
                  contacts |-> (db.contacts \ {contact}) \cup {updated}]
        ELSE [contact |-> None, contacts |-> db.contacts]

\* contacts.py update: look the row up by id and owner; when found, assign
\* the five fields from the body and commit.  Returns the row or None.
update(contact_id, body, user, db) ==
    LET contact == get_contact_by_id(contact_id, user, db)
    IN  IF contact # None
        THEN LET updated == [contact EXCEPT
                                !.first_name = body.first_name,
                                !.second_name = body.second_name,
                                !.email = body.email,
                                !.phone = body.phone,
                                !.birth_date = body.birth_date]
             IN  [contact |-> updated,
                  contacts |-> (db.contacts \ {contact}) \cup {updated}]
        ELSE [contact |-> None, contacts |-> db.contacts]

remove_unscoped(contact_id, user, db) ==
    LET contact == get_contact_by_id_unscoped(contact_id, user, db)
    IN  IF contact # None
        THEN [contact |-> contact, contacts |-> db.contacts \ {contact}]
        ELSE [contact |-> None, contacts |-> db.contacts]

remove_keeps_row(contact_id, user, db) ==
    [contact |-> get_contact_by_id(contact_id, user, db),
     contacts |-> db.contacts]

\* contacts.py remove: look the row up by id and owner; when found, delete
\* it and commit.  Returns the row as it was, or None.
remove(contact_id, user, db) ==
    LET contact == get_contact_by_id(contact_id, user, db)
    IN  IF contact # None
        THEN [contact |-> contact, contacts |-> db.contacts \ {contact}]
        ELSE [contact |-> None, contacts |-> db.contacts]

(* -------------------------------------------------------- the user store *)

\* Request bodies of sign-up (UserModel), by their email, and the emails
\* asked of the user store.
UserEmails == {"u1@x.com", "u2@x.com"}

\* An encoded refresh token.
Token(s) == [jwt |-> s]

\* Refresh tokens (None on logout) and avatar URLs written to a user.
Tokens == {None, Token("token")}
Urls == {"url"}

\* User.confirmed of a new row: the column's default.
confirmed_default == FALSE

\* User.email is unique: the store holds no second row with an email.
email_free(email, db) == \A u \in db : u.email # email

\* Gravatar(body.email).get_image()
get_image(email) == "gravatar:" \o email

\* db.query(User) in primary-key order.
RECURSIVE query_users(_)
query_users(S) ==
    IF S = {} THEN <<>>
    ELSE LET r == MinRow(S) IN <<r>> \o query_users(S \ {r})

\* users.py get_user_by_email: filter_by(email=email).first()
get_user_by_email(email, db) ==
    LET criterion(u) == u.email = email
    IN  first(SelectSeq(query_users(db), criterion))

\* users.py create_user: User(**body.dict(), avatar=grav.get_image()),
\* add, commit, refresh; `id` is the primary key the store assigned.
create_user(body, db, id) ==
    LET new_user == [id |-> id, email |-> body.email,
                     confirmed |-> confirmed_default,
                     avatar |-> get_image(body.email),
                     refresh_token |-> None]
    IN  [user |-> new_user, users |-> db \cup {new_user}]

\* users.py update_token: user.refresh_token = refresh_token; commit.
update_token(user, refresh_token, db) ==
    [user |-> None,
     users |-> (db \ {user})
                 \cup {[user EXCEPT !.refresh_token = refresh_token]}]

confirmed_email_all(email, db) ==
    LET user == get_user_by_email(email, db)
    IN  IF user = None
        THEN [raised |-> TRUE, user |-> None, users |-> db]
        ELSE [raised |-> FALSE, user |-> None,
              users |-> {[u EXCEPT !.confirmed = TRUE] : u \in db}]

\* users.py confirmed_email: user = get_user_by_email(email, db);
\* user.confirmed = True; commit.  With no such user the assignment
\* raises AttributeError on None and nothing is committed.
confirmed_email(email, db) ==
    LET user == get_user_by_email(email, db)
    IN  IF user = None
        THEN [raised |-> TRUE, user |-> None, users |-> db]
        ELSE [raised |-> FALSE, user |-> None,
              users |-> (db \ {user}) \cup {[user EXCEPT !.confirmed = TRUE]}]

\* users.py update_avatar: user.avatar = url; commit; return user.
update_avatar(email, url, db) ==
    LET user == get_user_by_email(email, db)
    IN  IF user = None
        THEN [raised |-> TRUE, user |-> None, users |-> db]
        ELSE LET updated == [user EXCEPT !.avatar = url]
             IN  [raised |-> FALSE, user |-> updated,
                  users |-> (db \ {user}) \cup {updated}]

(* ------------------------------------------------------------- the routes *)

\* Query(10, le=500): the greatest limit the list endpoint accepts.
MaxLimit == 500

limit_le_off_by_one(limit) == limit <= MaxLimit + 1

\* routes get_contacts: the validation of the limit query parameter.
limit_valid(limit) == limit <= MaxLimit

\* The status a request ends with when the engine raises inside the
\* handler: get_db turns an SQLAlchemyError into a 400 where the framework
\* hands the handler's exception to the dependency, else the exception
\* reaches the server's error handler (500).
StorageErrorStatus == {400, 500}

\* delta = 7 in get_birthday_list
delta == 7

\* calendar.isleap
isleap(y) == (y % 4 = 0 /\ y % 100 # 0) \/ y % 400 = 0

\* Days of month m of year y.
days_in_month(y, m) ==
    IF m = 2 THEN (IF isleap(y) THEN 29 ELSE 28)
    ELSE IF m \in {4, 6, 9, 11} THEN 30 ELSE 31

\* d + timedelta(days=n), n >= 0
RECURSIVE timedelta_add(_, _)
timedelta_add(d, n) ==
    IF n = 0 THEN d
    ELSE IF d.day < days_in_month(d.year, d.month)
         THEN timedelta_add([d EXCEPT !.day = d.day + 1], n - 1)
    ELSE IF d.month < 12
         THEN timedelta_add([d EXCEPT !.month = d.month + 1, !.day = 1], n - 1)
    ELSE timedelta_add(Date(d.year + 1, 1, 1), n - 1)

\* The GET routes of the /contacts router in the order the module declares
\* them; a path is its segments after the prefix, a trailing slash being a
\* last empty segment.
routes ==
    << [path |-> <<"">>, handler |-> "get_contacts"],
       [path |-> <<"{contact_id}">>, handler |-> "get_contact"],
       [path |-> <<"by_email", "{email}">>, handler |-> "get_contact_by_email"],
       [path |-> <<"by_phone", "{phone}">>, handler |-> "get_contact_by_phone"],
       [path |-> <<"by_first_name", "{first_name}">>,
        handler |-> "get_contact_by_first_name"],
       [path |-> <<"by_second_name", "{second_name}">>,
        handler |-> "get_contact_by_second_name"],
       [path |-> <<"by_birth_date", "{birth_date}">>,
        handler |-> "get_contact_by_birth_date"],
       [path |-> <<"birthday_list", "">>, handler |-> "get_birthday_list"] >>

\* Path parameters of the routes.
path_params ==
    {"{contact_id}", "{email}", "{phone}", "{first_name}", "{second_name}",
     "{birth_date}"}

\* A route path matches a request path segment by segment; a parameter
\* matches any non-empty segment.
matches(route_path, path) ==
    /\ Len(route_path) = Len(path)
    /\ \A i \in 1..Len(path) :
          IF route_path[i] \in path_params THEN path[i] # ""
          ELSE route_path[i] = path[i]

\* The router walks the routes in order and takes the first that matches.
route(path) ==
    LET hits == {i \in 1..Len(routes) : matches(routes[i].path, path)}
    IN  IF hits = {} THEN None
        ELSE routes[CHOOSE i \in hits : \A j \in hits : i <= j].handler

\* Path segments that parse as an int, among the ids callers ask for.
is_int(segment) == \E n \in 0..(MaxId + 1) : ToString(n) = segment

\* int(segment)
int(segment) == CHOOSE n \in 0..(MaxId + 1) : ToString(n) = segment

found_always(contact, success) == [status |-> success, detail |-> None]

\* if contact is None: raise HTTPException(status_code=404,
\* detail="Not Found"); otherwise the route's success status.
found(contact, success) ==
    IF contact = None
    THEN [status |-> 404, detail |-> "Not Found"]
    ELSE [status |-> success, detail |-> None]

\* routes get_contact: contact_id: int = Path(ge=1), then the lookup; 404
\* when the repository returns None.
get_contact(segment, current_user, db) ==
    IF ~is_int(segment)
    THEN [status |-> 422, detail |-> None, called |-> FALSE, contact |-> None]
    ELSE IF ~(int(segment) >= 1)
    THEN [status |-> 422, detail |-> None, called |-> FALSE, contact |-> None]
    ELSE LET contact == get_contact_by_id(int(segment), current_user, db)
         IN  [called |-> TRUE, contact |-> contact] @@ found(contact, 200)

\* routes create_contact: POST /contacts/, 201 with the created row.
create_contact(body, current_user, db, id) ==
    LET r == create(body, current_user, db, id)
    IN  [status |-> 201, detail |-> None, called |-> TRUE,
         contact |-> r.contact, contacts |-> r.contacts]

\* routes update_contact: PUT /contacts/{contact_id}, Path(ge=1).
update_contact(body, contact_id, current_user, db) ==
    IF ~(contact_id >= 1)
    THEN [status |-> 422, detail |-> None, called |-> FALSE,
          contact |-> None, contacts |-> db.contacts]
    ELSE LET r == update(contact_id, body, current_user, db)
         IN  [called |-> TRUE, contact |-> r.contact, contacts |-> r.contacts]
                 @@ found(r.contact, 200)

\* routes remove_contact: DELETE /contacts/{contact_id}, Path(ge=1), 204.
remove_contact(contact_id, current_user, db) ==
    IF ~(contact_id >= 1)
    THEN [status |-> 422, detail |-> None, called |-> FALSE,
          contact |-> None, contacts |-> db.contacts]
    ELSE LET r == remove(contact_id, current_user, db)
         IN  [called |-> TRUE, contact |-> r.contact, contacts |-> r.contacts]
                 @@ found(r.contact, 204)

\* The arguments routes get_birthday_list passes to
\* repository_contacts.get_contacts_birthday.
get_birthday_list_args(start_date, end_date, current_user, db) ==
    <<start_date, end_date, current_user, db>>

\* Request paths (after /api/contacts/) asked of the birthday endpoint.
BirthdayPaths == { <<"birthday_list">>, <<"birthday_list", "">> }

\* datetime.now().date() at the time of a birthday request.
Todays == { Date(2024, 2, 1), Date(2024, 2, 25), Date(2023, 12, 28) }

(* ------------------------------------------------------ the HTTP surface *)

\* RateLimiter(times=10, seconds=10): requests let through per window.
times == 10

\* The handlers of the /contacts router and of main.py's health check.
ReadEndpoints ==
    {"get_contacts", "get_contact", "get_contact_by_email",
     "get_contact_by_phone", "get_contact_by_first_name",
     "get_contact_by_second_name", "get_contact_by_birth_date",
     "get_birthday_list"}

ContactEndpoints ==
    ReadEndpoints \cup {"create_contact", "update_contact", "remove_contact"}

Endpoints == ContactEndpoints \cup {"healthchecker"}

dependencies_without_auth(endpoint) ==
    IF endpoint = "get_contacts" THEN <<"RateLimiter", "get_db">>
    ELSE <<"get_db">>

\* The dependencies each route declares, in the order the framework solves
\* them: those of the decorator's dependencies=[...] first, then the
\* handler's Depends parameters from left to right.
dependencies(endpoint) ==
    IF endpoint = "get_contacts"
    THEN <<"RateLimiter", "get_db", "get_current_user">>
    ELSE IF endpoint = "healthchecker" THEN <<"get_db">>
    ELSE <<"get_db", "get_current_user">>

\* Whether a route declares the dependency.
depends(endpoint, dependency) ==
    \E i \in DOMAIN dependencies(endpoint) :
        dependencies(endpoint)[i] = dependency

\* The Authorization header of a request: none, or a bearer token that the
\* auth service resolves to a user.
Bearers == {None} \cup {[user |-> u] : u \in Users}

\* auth_service.get_current_user: the User of a valid bearer token; None
\* stands for its 401 when the request carries none.
get_current_user(bearer) ==
    IF bearer = None THEN None ELSE [id |-> bearer.user]

\* What the storage does when a request's handler reaches it: answers
\* with a row, answers the probe with no row, or fails (connection lost,
\* driver error).
Storage == {"row", "none", "error"}

\* main.py healthchecker: SELECT 1 and fetchone(); any exception in the
\* try block, the HTTPException for a missing row included, is caught by
\* `except Exception` and answered 500.
healthchecker(storage) ==
    IF storage = "row"
    THEN [status |-> 200, detail |-> None,
          result |-> [message |-> "Welcome to FastAPI!"]]
    ELSE [status |-> 500, detail |-> "Error connecting to the database",
          result |-> None]

\* The inputs the requests of the surface carry: the first contact id, a
\* body, its field values, default paging.
SurfaceBody == ContactModel("C", "D", "c@d.com", "456", Date(2000, 2, 5))

\* The handler of a /contacts route run for `user` on a storage that
\* answers; `id` is the primary key a create would be given.
handle(endpoint, user, db, id) ==
    LET same(r) == [status |-> r.status, called |-> r.called,
                    contacts |-> db.contacts]
        by(contact) == [called |-> TRUE, contacts |-> db.contacts]
                           @@ found(contact, 200)
    IN  CASE endpoint = "get_contacts" ->
                 [status |-> 200, called |-> TRUE, contacts |-> db.contacts]
          [] endpoint = "get_contact" -> same(get_contact("1", user, db))
          [] endpoint = "get_contact_by_email" ->
                 by(get_contact_by_email(SurfaceBody.email, user, db))
          [] endpoint = "get_contact_by_phone" ->
                 by(get_contact_by_phone(SurfaceBody.phone, user, db))
          [] endpoint = "get_contact_by_first_name" ->
                 by(get_contact_by_first_name(SurfaceBody.first_name, user, db))
          [] endpoint = "get_contact_by_second_name" ->
                 by(get_contact_by_second_name(SurfaceBody.second_name, user, db))
          [] endpoint = "get_contact_by_birth_date" ->
                 by(get_contact_by_birth_date(SurfaceBody.birth_date, user, db))
          [] endpoint = "get_birthday_list" ->
                 \* TypeError before the storage is reached
                 [status |-> 500, called |-> FALSE, contacts |-> db.contacts]
          [] endpoint = "create_contact" ->
                 LET r == create_contact(SurfaceBody, user, db, id)
                 IN  [status |-> r.status, called |-> r.called,
                      contacts |-> r.contacts]
          [] endpoint = "update_contact" ->
                 LET r == update_contact(SurfaceBody, 1, user, db)
                 IN  [status |-> r.status, called |-> r.called,
                      contacts |-> r.contacts]
          [] endpoint = "remove_contact" ->
                 LET r == remove_contact(1, user, db)
                 IN  [status |-> r.status, called |-> r.called,
                      contacts |-> r.contacts]

(* ------------------------------------------- requests step by step *)

\* Requests in flight or finished in one run.
MaxHandlers == 2

\* db = DBSession() in get_db: a new session, open.
DBSession(made) == Append(made, [open |-> TRUE])

close_skipped(made, k) == made

\* db.close() in get_db's finally.
close(made, k) == [made EXCEPT ![k].open = FALSE]

\* The names of the columns update assigns.
Columns == {"first_name", "second_name", "email", "phone", "birth_date"}

\* update's five assignments to the loaded row and db.commit(): the unit
\* of work writes the columns whose value differs from the one loaded,
\* UPDATE contacts SET <those> WHERE id = <loaded id>, onto the row as it
\* is stored at that moment.
commit(loaded, body, rows) ==
    LET dirty == {f \in Columns : body[f] # loaded[f]}
        written(c) == [f \in DOMAIN c |->
                          IF f \in dirty THEN body[f] ELSE c[f]]
    IN  {IF c.id = loaded.id THEN written(c) ELSE c : c \in rows}

\* The contact stored before the requests of a step-by-step run.
StoredContact ==
    Contact(ContactModel("A", "B", "a@b.com", "123", Date(2000, 2, 1)), 1, 1)

\* The bodies the PUT requests of a step-by-step run carry.
UpdateBodies ==
    { ContactModel("C", "D", "c@d.com", "456", Date(2000, 2, 5)),
      ContactModel("A", "D", "a@b.com", "789", Date(2000, 2, 20)) }

(* ---------------------------------------------------------------- state *)

\* `last` before any call, and the fields a call leaves unused.
NoCall ==
    [op |-> "none", user |-> None, contact_id |-> None, body |-> None,
     limit |-> None, offset |-> None, start_date |-> None, end_date |-> None,
     path |-> None, handler |-> None, today |-> None,
     field |-> None, value |-> None,
     status |-> None, detail |-> None, called |-> FALSE,
     contact |-> None, contacts |-> None, before |-> {}, prior |-> None,
     raised |-> FALSE, result |-> None, users_before |-> {},
     bearer |-> None, storage |-> "unused", limited |-> FALSE]

\* No user accounts, no request in flight, no session made, no list
\* request counted.
InitRest ==
    /\ users = {}
    /\ handlers = <<>>
    /\ sessions = <<>>
    /\ window = 0

Init ==
    /\ contacts = {}
    /\ dialect \in Dialects
    /\ last = NoCall
    /\ InitRest

Db == Session(dialect, contacts)

\* repository create, called with a request body under a user's identity.
Create(user, body) ==
    \E id \in Ids :
        /\ \A c \in contacts : c.id # id
        /\ LET r == create(body, user, Db, id)
           IN  /\ contacts' = r.contacts
               /\ last' = [NoCall EXCEPT !.op = "create", !.user = user,
                              !.body = body, !.called = TRUE,
                              !.contact = r.contact, !.before = contacts]
        /\ UNCHANGED <<dialect, users, handlers, sessions, window>>

\* repository get_contact_by_id.
GetContactById(user, contact_id) ==
    /\ last' = [NoCall EXCEPT !.op = "get_contact_by_id", !.user = user,
                   !.contact_id = contact_id, !.called = TRUE,
                   !.contact = get_contact_by_id(contact_id, user, Db),
                   !.before = contacts,
                   !.prior = IF /\ last.op = "create"
                                /\ last.user = user
                                /\ last.contact.id = contact_id
                             THEN [body |-> last.body, contact |-> last.contact]
                             ELSE None]
    /\ UNCHANGED <<contacts, dialect, users, handlers, sessions, window>>

\* repository update.
Update(user, contact_id, body) ==
    LET r == update(contact_id, body, user, Db)
    IN  /\ contacts' = r.contacts
        /\ last' = [NoCall EXCEPT !.op = "update", !.user = user,
                       !.contact_id = contact_id, !.body = body,
                       !.called = TRUE, !.contact = r.contact,
                       !.before = contacts]
        /\ UNCHANGED <<dialect, users, handlers, sessions, window>>

\* repository remove; `prior` is the row a remove of the same id by the
\* same user returned in the call just before this one, if there was one.
Remove(user, contact_id) ==
    LET r == remove(contact_id, user, Db)
    IN  /\ contacts' = r.contacts
        /\ last' = [NoCall EXCEPT !.op = "remove", !.user = user,
                       !.contact_id = contact_id, !.called = TRUE,
                       !.contact = r.contact, !.before = contacts,
                       !.prior = IF /\ last.op = "remove"
                                    /\ last.user = user
                                    /\ last.contact_id = contact_id
                                    /\ last.contact # None
                                 THEN [contact |-> last.contact]
                                 ELSE None]
        /\ UNCHANGED <<dialect, users, handlers, sessions, window>>

\* repository get_contacts_birthday, called on behalf of `user` (who is not
\* among its parameters).
GetContactsBirthday(user, start_date, end_date) ==
    /\ last' = [NoCall EXCEPT !.op = "get_contacts_birthday", !.user = user,
                   !.start_date = start_date, !.end_date = end_date,
                   !.called = TRUE,
                   !.contacts = get_contacts_birthday(start_date, end_date, Db),
                   !.before = contacts]
    /\ UNCHANGED <<contacts, dialect, users, handlers, sessions, window>>

\* GET /contacts/?limit=&offset= as `user`: validate the limit, then call
\* repository get_contacts.
ListRequest(user, limit, offset) ==
    /\ IF ~limit_valid(limit)
       THEN last' = [NoCall EXCEPT !.op = "GET /contacts/", !.user = user,
                        !.limit = limit, !.offset = offset,
                        !.handler = "get_contacts", !.status = 422,
                        !.before = contacts]
       ELSE LET r == get_contacts(limit, offset, user, Db)
            IN  \E status \in (IF r.error THEN StorageErrorStatus ELSE {200}) :
                    last' = [NoCall EXCEPT !.op = "GET /contacts/",
                                !.user = user,
                                !.limit = limit, !.offset = offset,
                                !.handler = "get_contacts",
                                !.status = status, !.called = TRUE,
                                !.contacts = r.contacts, !.before = contacts]
    /\ UNCHANGED <<contacts, dialect, users, handlers, sessions, window>>

\* GET of a birthday path as `user` on the day `today`: the router picks
\* the handler; get_contact validates its path parameter; get_birthday_list
\* computes the window and calls repository get_contacts_birthday with the
\* arguments it passes.
BirthdayListRequest(user, path, today) ==
    LET handler == route(path)
        start_date == today
        end_date == timedelta_add(start_date, delta)
        args == get_birthday_list_args(start_date, end_date, user, Db)
        call == [NoCall EXCEPT !.op = "GET birthday_list", !.user = user,
                    !.path = path, !.today = today, !.handler = handler,
                    !.before = contacts]
    IN  /\ last' =
             IF handler = "get_contact"
             THEN LET r == get_contact(path[1], user, Db)
                  IN  [call EXCEPT !.status = r.status, !.called = r.called,
                          !.contact = r.contact]
             ELSE IF handler = "get_birthday_list"
             THEN IF Len(args) # Len(get_contacts_birthday_params)
                  THEN \* TypeError: the call does not fit the parameters
                       [call EXCEPT !.status = 500]
                  ELSE [call EXCEPT !.status = 200, !.called = TRUE,
                           !.start_date = args[1], !.end_date = args[2],
                           !.contacts =
                               get_contacts_birthday(args[1], args[2], args[3])]
             ELSE [call EXCEPT !.status = 404]
        /\ UNCHANGED <<contacts, dialect, users, handlers, sessions, window>>

\* POST /contacts/ as `user`.
CreateContactRequest(user, body) ==
    \E id \in Ids :
        /\ \A c \in contacts : c.id # id
        /\ LET r == create_contact(body, user, Db, id)
           IN  /\ contacts' = r.contacts
               /\ last' = [NoCall EXCEPT !.op = "POST /contacts/",
                              !.user = user, !.body = body,
                              !.handler = "create_contact",
                              !.status = r.status, !.detail = r.detail,
                              !.called = r.called, !.contact = r.contact,
                              !.before = contacts]
        /\ UNCHANGED <<dialect, users, handlers, sessions, window>>

\* GET /contacts/{contact_id} as `user`, the path parameter as sent.
GetContactRequest(user, segment) ==
    LET r == get_contact(segment, user, Db)
    IN  /\ last' = [NoCall EXCEPT !.op = "GET /contacts/{contact_id}",
                       !.user = user, !.path = <<segment>>,
                       !.handler = "get_contact",
                       !.status = r.status, !.detail = r.detail,
                       !.called = r.called, !.contact = r.contact,
                       !.before = contacts]
        /\ UNCHANGED <<contacts, dialect, users, handlers, sessions, window>>

\* GET /contacts/by_<field>/{value} as `user`: the handlers of the five
\* single-field routes differ only in the repository function they call,
\* whose result here is `contact`.
ByFieldRequest(user, field, value, contact) ==
    LET r == found(contact, 200)
    IN  /\ last' = [NoCall EXCEPT !.op = "GET /contacts/by_field",
                       !.user = user, !.field = field, !.value = value,
                       !.handler = "get_contact_by_" \o field,
                       !.status = r.status, !.detail = r.detail,
                       !.called = TRUE, !.contact = contact,
                       !.before = contacts]
        /\ UNCHANGED <<contacts, dialect, users, handlers, sessions, window>>

GetContactByEmailRequest(user, email) ==
    ByFieldRequest(user, "email", email, get_contact_by_email(email, user, Db))

GetContactByPhoneRequest(user, phone) ==
    ByFieldRequest(user, "phone", phone, get_contact_by_phone(phone, user, Db))

GetContactByFirstNameRequest(user, first_name) ==
    ByFieldRequest(user, "first_name", first_name,
                   get_contact_by_first_name(first_name, user, Db))

GetContactBySecondNameRequest(user, second_name) ==
    ByFieldRequest(user, "second_name", second_name,
                   get_contact_by_second_name(second_name, user, Db))

GetContactByBirthDateRequest(user, birth_date) ==
    ByFieldRequest(user, "birth_date", birth_date,
                   get_contact_by_birth_date(birth_date, user, Db))

\* PUT /contacts/{contact_id} as `user`.
UpdateContactRequest(user, contact_id, body) ==
    LET r == update_contact(body, contact_id, user, Db)
    IN  /\ contacts' = r.contacts
        /\ last' = [NoCall EXCEPT !.op = "PUT /contacts/{contact_id}",
                       !.user = user, !.contact_id = contact_id,
                       !.body = body, !.handler = "update_contact",
                       !.status = r.status, !.detail = r.detail,
                       !.called = r.called, !.contact = r.contact,
                       !.before = contacts]
        /\ UNCHANGED <<dialect, users, handlers, sessions, window>>

\* DELETE /contacts/{contact_id} as `user`.
RemoveContactRequest(user, contact_id) ==
    LET r == remove_contact(contact_id, user, Db)
    IN  /\ contacts' = r.contacts
        /\ last' = [NoCall EXCEPT !.op = "DELETE /contacts/{contact_id}",
                       !.user = user, !.contact_id = contact_id,
                       !.handler = "remove_contact",
                       !.status = r.status, !.detail = r.detail,
                       !.called = r.called, !.contact = r.contact,
                       !.before = contacts]
        /\ UNCHANGED <<dialect, users, handlers, sessions, window>>

\* repository_users.create_user with a sign-up body.
CreateUser(email) ==
    \E id \in Users :
        /\ \A u \in users : u.id # id
        /\ email_free(email, users)
        /\ LET r == create_user([email |-> email], users, id)
           IN  /\ users' = r.users
               /\ last' = [NoCall EXCEPT !.op = "create_user",
                              !.value = email, !.called = TRUE,
                              !.result = r.user, !.users_before = users]
        /\ UNCHANGED <<contacts, dialect, handlers, sessions, window>>

\* repository_users.update_token for a stored user.
UpdateToken(user, refresh_token) ==
    LET r == update_token(user, refresh_token, users)
    IN  /\ users' = r.users
        /\ last' = [NoCall EXCEPT !.op = "update_token", !.user = user.id,
                       !.value = refresh_token, !.called = TRUE,
                       !.users_before = users]
        /\ UNCHANGED <<contacts, dialect, handlers, sessions, window>>

\* repository_users.confirmed_email.
ConfirmedEmail(email) ==
    LET r == confirmed_email(email, users)
    IN  /\ users' = r.users
        /\ last' = [NoCall EXCEPT !.op = "confirmed_email", !.value = email,
                       !.called = TRUE, !.raised = r.raised,
                       !.users_before = users]
        /\ UNCHANGED <<contacts, dialect, handlers, sessions, window>>

\* repository_users.update_avatar.
UpdateAvatar(email, url) ==
    LET r == update_avatar(email, url, users)
    IN  /\ users' = r.users
        /\ last' = [NoCall EXCEPT !.op = "update_avatar", !.value = email,
                       !.called = TRUE, !.raised = r.raised,
                       !.result = r.user, !.users_before = users]
        /\ UNCHANGED <<contacts, dialect, handlers, sessions, window>>

\* A request to an endpoint of the surface with the given Authorization
\* header, on a storage in the given condition.  The dependencies are
\* solved in order: the limiter answers 429 once `times` requests of the
\* window were let through; get_current_user answers 401; then the
\* handler runs.  An error the storage raises inside a /contacts handler
\* leaves through get_db; the health check catches its own.
Request(endpoint, bearer, storage) ==
    LET limited == depends(endpoint, "RateLimiter")
        current_user == get_current_user(bearer)
        user == IF current_user = None THEN None ELSE current_user.id
        call == [NoCall EXCEPT !.op = "request", !.handler = endpoint,
                    !.bearer = bearer, !.storage = storage,
                    !.limited = limited, !.user = user, !.before = contacts]
    IN  IF limited /\ window >= times
        THEN /\ last' = [call EXCEPT !.status = 429]
             /\ UNCHANGED <<contacts, dialect, users, handlers, sessions,
                            window>>
        ELSE /\ window' = IF limited THEN window + 1 ELSE window
             /\ UNCHANGED <<dialect, users, handlers, sessions>>
             /\ IF depends(endpoint, "get_current_user") /\ current_user = None
                THEN /\ last' = [call EXCEPT !.status = 401]
                     /\ UNCHANGED contacts
                ELSE IF endpoint = "healthchecker"
                THEN LET r == healthchecker(storage)
                     IN  /\ last' = [call EXCEPT !.status = r.status,
                                        !.detail = r.detail,
                                        !.result = r.result, !.called = TRUE]
                         /\ UNCHANGED contacts
                ELSE IF storage = "error" /\ endpoint # "get_birthday_list"
                THEN /\ \E status \in StorageErrorStatus :
                            last' = [call EXCEPT !.status = status,
                                        !.called = TRUE]
                     /\ UNCHANGED contacts
                ELSE \E id \in Ids :
                        /\ IF endpoint = "create_contact"
                           THEN \A c \in contacts : c.id # id
                           ELSE id = 1
                        /\ LET r == handle(endpoint, user, Db, id)
                           IN  /\ contacts' = r.contacts
                               /\ last' = [call EXCEPT !.status = r.status,
                                              !.called = r.called]

\* The limiter's window of `seconds` runs out.
Expire ==
    /\ window > 0
    /\ window' = 0
    /\ last' = [NoCall EXCEPT !.op = "expire"]
    /\ UNCHANGED <<contacts, dialect, users, handlers, sessions>>

\* A PUT /contacts/{contact_id} arrives: get_db makes the request's
\* session and the handler is about to call repository update.
Arrive(user, contact_id, body) ==
    /\ Len(handlers) < MaxHandlers
    /\ sessions' = DBSession(sessions)
    /\ handlers' = Append(handlers,
                          [user |-> user, contact_id |-> contact_id,
                           body |-> body, pc |-> "query",
                           db |-> Len(sessions'), contact |-> None,
                           status |-> 0])
    /\ UNCHANGED <<contacts, dialect, last, users, window>>

\* update's lookup of the row in the handler's session; a missing row
\* makes the handler raise 404.
Query(i) ==
    /\ handlers[i].pc = "query"
    /\ LET h == handlers[i]
           contact == get_contact_by_id(h.contact_id, h.user, Db)
           r == found(contact, 200)
       IN  handlers' =
               [handlers EXCEPT ![i] =
                   IF contact = None
                   THEN [h EXCEPT !.pc = "finally", !.status = r.status]
                   ELSE [h EXCEPT !.pc = "commit", !.contact = contact]]
    /\ UNCHANGED <<contacts, dialect, last, users, sessions, window>>

\* update's assignments and commit, and the handler's return.
Commit(i) ==
    /\ handlers[i].pc = "commit"
    /\ LET h == handlers[i]
       IN  /\ contacts' = commit(h.contact, h.body, contacts)
           /\ handlers' = [handlers EXCEPT ![i] =
                              [h EXCEPT !.pc = "finally", !.status = 200]]
    /\ UNCHANGED <<dialect, last, users, sessions, window>>

\* The storage fails under the handler's query or commit: the error
\* leaves the handler through get_db.
StorageError(i) ==
    /\ handlers[i].pc \in {"query", "commit"}
    /\ \E status \in StorageErrorStatus :
          handlers' = [handlers EXCEPT ![i] =
                          [handlers[i] EXCEPT !.pc = "finally",
                                              !.status = status]]
    /\ UNCHANGED <<contacts, dialect, last, users, sessions, window>>

\* get_db's finally: the session is closed and the request is over.
Finally(i) ==
    /\ handlers[i].pc = "finally"
    /\ sessions' = close(sessions, handlers[i].db)
    /\ handlers' = [handlers EXCEPT ![i] = [handlers[i] EXCEPT !.pc = "done"]]
    /\ UNCHANGED <<contacts, dialect, last, users, window>>

(* -------------------------------------------------------- specifications *)

Next ==
    \/ \E u \in Users, b \in Bodies : Create(u, b)
    \/ \E u \in Users, i \in Ids, b \in Bodies : Update(u, i, b)
    \/ \E u \in Users, i \in Ids : Remove(u, i)
    \/ \E u \in Users, i \in Ids : GetContactById(u, i)
    \/ \E u \in Users, r \in Ranges : GetContactsBirthday(u, r[1], r[2])
    \/ \E u \in Users, l \in Limits, o \in Offsets : ListRequest(u, l, o)
    \/ \E u \in Users, p \in BirthdayPaths, t \in Todays :
          BirthdayListRequest(u, p, t)

\* Every operation, from an empty table.
Spec == Init /\ [][Next]_vars

\* The repository's by-id operations.
NextStore ==
    \/ \E u \in Users, b \in Bodies : Create(u, b)
    \/ \E u \in Users, i \in Ids, b \in Bodies : Update(u, i, b)
    \/ \E u \in Users, i \in Ids : Remove(u, i)
    \/ \E u \in Users, i \in Ids : GetContactById(u, i)

SpecStore == Init /\ [][NextStore]_vars

\* The list endpoint over a table that grows and shrinks.
NextList ==
    \/ \E u \in Users, b \in Bodies : Create(u, b)
    \/ \E u \in Users, i \in Ids : Remove(u, i)
    \/ \E u \in Users, l \in Limits, o \in Offsets : ListRequest(u, l, o)

SpecList == Init /\ [][NextList]_vars

\* Tables of up to MaxRows rows, any owners, any of the birthday bodies.
Slots ==
    {[present |-> FALSE]} \cup
    {[present |-> TRUE, body |-> b, user |-> u] :
        b \in BirthdayBodies, u \in Users}

Tables ==
    { {Contact(f[i].body, f[i].user, i) : i \in {j \in 1..MaxRows : f[j].present}} :
        f \in [1..MaxRows -> Slots] }

InitBirthday ==
    /\ contacts \in Tables
    /\ dialect \in Dialects
    /\ last = NoCall
    /\ InitRest

NextBirthday ==
    \E u \in Users, r \in Ranges : GetContactsBirthday(u, r[1], r[2])

\* The birthday query applied to every table.
SpecBirthday == InitBirthday /\ [][NextBirthday]_vars

\* Path parameters of the by-id routes: a stored or missing id, or 0.
ContactIds == 0..MaxId

\* Values asked of the single-field routes: those of the bodies and one
\* that no body has.
FirstNames == {b.first_name : b \in Bodies} \cup {"Z"}
SecondNames == {b.second_name : b \in Bodies} \cup {"Z"}
Emails == {b.email : b \in Bodies} \cup {"z@z.com"}
Phones == {b.phone : b \in Bodies} \cup {"999"}
BirthDates == {b.birth_date : b \in Bodies} \cup {Date(1999, 9, 9)}

NextRoutes ==
    \/ \E u \in Users, b \in Bodies : CreateContactRequest(u, b)
    \/ \E u \in Users, i \in ContactIds : GetContactRequest(u, ToString(i))
    \/ \E u \in Users, v \in Emails : GetContactByEmailRequest(u, v)
    \/ \E u \in Users, v \in Phones : GetContactByPhoneRequest(u, v)
    \/ \E u \in Users, v \in FirstNames : GetContactByFirstNameRequest(u, v)
    \/ \E u \in Users, v \in SecondNames : GetContactBySecondNameRequest(u, v)
    \/ \E u \in Users, v \in BirthDates : GetContactByBirthDateRequest(u, v)
    \/ \E u \in Users, i \in ContactIds, b \in Bodies :
          UpdateContactRequest(u, i, b)
    \/ \E u \in Users, i \in ContactIds : RemoveContactRequest(u, i)

\* The by-id and single-field routes, with create, update and delete.
SpecRoutes == Init /\ [][NextRoutes]_vars

NextUsers ==
    \/ \E e \in UserEmails : CreateUser(e)
    \/ \E u \in users, t \in Tokens : UpdateToken(u, t)
    \/ \E e \in UserEmails : ConfirmedEmail(e)
    \/ \E e \in UserEmails, url \in Urls : UpdateAvatar(e, url)

\* The user store.
SpecUsers == Init /\ [][NextUsers]_vars

NextSurface ==
    \/ \E e \in Endpoints, b \in Bearers, s \in Storage :
          /\ s = "none" => e = "healthchecker"
          /\ Request(e, b, s)
    \/ Expire

\* Every endpoint, with and without a bearer token, on a storage that
\* answers or fails.
SpecSurface == Init /\ [][NextSurface]_vars

InitHandlers ==
    /\ contacts = {StoredContact}
    /\ dialect = "postgresql"
    /\ last = NoCall
    /\ InitRest

NextHandlers ==
    \/ \E u \in Users, b \in UpdateBodies : Arrive(u, StoredContact.id, b)
    \/ \E i \in DOMAIN handlers : Query(i)
    \/ \E i \in DOMAIN handlers : Commit(i)
    \/ \E i \in DOMAIN handlers : StorageError(i)
    \/ \E i \in DOMAIN handlers : Finally(i)

\* PUT requests on one stored contact, served step by step by workers
\* that run side by side.
SpecHandlers == InitHandlers /\ [][NextHandlers]_vars

(* ----------------------------------------------------------------- claims *)

\* The rows of `rows` with primary key `id` owned by `user`.
Owned(rows, id, user) == {c \in rows : c.id = id /\ c.user_id = user}

\* The elements of a sequence.
Range(seq) == {seq[i] : i \in 1..Len(seq)}

\* The five editable fields of a row.
Fields(c) ==
    ContactModel(c.first_name, c.second_name, c.email, c.phone, c.birth_date)

\* C1: for users A # B and a contact C owned by A, get_contact_by_id(C.id)
\* under B returns None and under A returns C, in every store state; and
\* every call made returns the row with that id and owner, or None.
C1_ByIdOwnerOnly ==
    /\ \A c \in contacts : \A u \in Users :
          get_contact_by_id(c.id, u, Db) = IF u = c.user_id THEN c ELSE None
    /\ last.op = "get_contact_by_id" =>
          LET hit == Owned(contacts, last.contact_id, last.user)
          IN  IF hit = {} THEN last.contact = None ELSE hit = {last.contact}

\* C1 witness: user B asked for the id of a stored contact of user A and
\* got None.
C1_Witness ==
    /\ last.op = "get_contact_by_id"
    /\ last.contact = None
    /\ \E c \in contacts : c.id = last.contact_id /\ c.user_id # last.user

\* C2: no read of the contact store returns a contact owned by a user other
\* than the one it was made for: get_contacts, get_contact_by_id and
\* get_contacts_birthday alike.
C2_ReadsOwnerScoped ==
    /\ ( \/ last.op = "get_contacts_birthday"
         \/ (last.op = "GET /contacts/" /\ last.status = 200) )
       => \A c \in Range(last.contacts) : c.user_id = last.user
    /\ (last.op = "get_contact_by_id" /\ last.contact # None)
       => last.contact.user_id = last.user

\* C3: update with an id that no stored contact of the user has (missing,
\* or another user's) returns None, creates nothing and changes no row.
C3_UpdateNoMatch ==
    last.op = "update" /\ Owned(last.before, last.contact_id, last.user) = {}
        => last.contact = None /\ contacts = last.before

\* C3 witness: an update aimed at another user's contact returned None.
C3_Witness ==
    /\ last.op = "update"
    /\ last.contact = None
    /\ \E c \in last.before : c.id = last.contact_id /\ c.user_id # last.user

\* C4: after create(fields, owner) returned a contact with id i,
\* get_contact_by_id(i, owner) returns a row with the five input fields,
\* owned by the owner: in the state create leaves, and in the call that
\* follows it.
C4_CreateThenGet ==
    /\ last.op = "create" =>
          LET got == get_contact_by_id(last.contact.id, last.user, Db)
          IN  /\ got # None
              /\ Fields(got) = last.body
              /\ got.user_id = last.user
    /\ last.op = "get_contact_by_id" /\ last.prior # None =>
          /\ last.contact # None
          /\ last.contact.id = last.prior.contact.id
          /\ Fields(last.contact) = last.prior.body
          /\ last.contact.user_id = last.user

\* C4 witness: get_contact_by_id was called right after create, with the id
\* create returned and the same owner.
C4_Witness ==
    /\ last.op = "get_contact_by_id"
    /\ last.prior # None
    /\ last.contact # None

\* C5: remove of a stored contact of the owner returns the row as it was
\* and leaves no contact with that id; removing the same id again returns
\* None and changes nothing.
C5_RemoveTwice ==
    last.op = "remove" =>
        LET hit == Owned(last.before, last.contact_id, last.user)
        IN  /\ hit # {} =>
                /\ hit = {last.contact}
                /\ contacts = last.before \ hit
                /\ \A c \in contacts : c.id # last.contact_id
                /\ remove(last.contact_id, last.user, Db) =
                       [contact |-> None, contacts |-> contacts]
            /\ last.prior # None =>
                /\ last.contact = None
                /\ contacts = last.before

\* C5 witness: the second of two removes of the same id by the owner, the
\* first of which returned the row.
C5_Witness ==
    /\ last.op = "remove"
    /\ last.prior # None
    /\ last.prior.contact.id = last.contact_id

\* C6: a list request the endpoint accepts, answered with a list, holds at
\* most `limit` contacts (an empty list is always in order), all owned by
\* the requesting user, however many contacts the user owns.
C6_ListAtMostLimit ==
    (last.op = "GET /contacts/" /\ last.called /\ last.status = 200) =>
        /\ last.contacts = <<>> \/ Len(last.contacts) <= last.limit
        /\ \A c \in Range(last.contacts) : c.user_id = last.user

\* C7: a list request with a limit above 500 is answered 422 without the
\* store being called; get_contacts is never called with a limit above 500.
C7_LimitValidated ==
    last.op = "GET /contacts/" =>
        /\ last.limit > 500 => last.status = 422 /\ ~last.called
        /\ last.called => last.limit <= 500

\* C7 witness: a request with limit 501 was refused before the store.
C7_Witness ==
    /\ last.op = "GET /contacts/"
    /\ last.limit = 501
    /\ last.status = 422
    /\ ~last.called

SpansMonths ==
    \/ last.start_date.month # last.end_date.month
    \/ last.start_date.year # last.end_date.year

C10_BirthdayListServed ==
    last.op = "GET birthday_list" =>
        /\ last.handler = "get_birthday_list"
        /\ last.status = 200
        /\ last.contacts =
               get_contacts_birthday(last.today,
                                     timedelta_add(last.today, 7), Db)

\* C11: update of a stored contact of the owner replaces its five editable
\* fields by the body's, returns the updated row and keeps its id and its
\* owner; and no call of any kind changes the owner of a stored contact.
C11_UpdateReplacesFields ==
    /\ last.op = "update" =>
          LET hit == Owned(last.before, last.contact_id, last.user)
          IN  hit # {} =>
                /\ last.contact # None
                /\ Fields(last.contact) = last.body
                /\ last.contact.id = last.contact_id
                /\ last.contact.user_id = last.user
                /\ contacts = (last.before \ hit) \cup {last.contact}
    /\ \A c \in last.before : \A d \in contacts :
          c.id = d.id => c.user_id = d.user_id

\* C11 witness: an update that changed the fields of a stored contact.
C11_Witness ==
    /\ last.op = "update"
    /\ last.contact \in contacts
    /\ \E c \in last.before :
          /\ c.id = last.contact_id
          /\ c.user_id = last.user
          /\ Fields(c) # last.body
          /\ c.phone # last.contact.phone

\* C19: a create, update or remove made under one user leaves the contacts
\* of every other user exactly as they were (none added, changed or
\* deleted), and the ids of the stored contacts stay pairwise distinct.
C19_OtherUsersUntouched ==
    /\ last.op \in {"create", "update", "remove"} =>
          \A u \in Users \ {last.user} :
              {c \in contacts : c.user_id = u}
                  = {c \in last.before : c.user_id = u}
    /\ \A c \in contacts : \A d \in contacts : c.id = d.id => c = d

\* C19 witness: an update or remove aimed at the id of another user's
\* stored contact.
C19_Witness ==
    /\ last.op \in {"update", "remove"}
    /\ \E c \in last.before :
          /\ c.id = last.contact_id
          /\ c.user_id # last.user
          /\ c \in contacts

\* The value of the named editable field of a row.
FieldOf(c, field) ==
    CASE field = "email" -> c.email
      [] field = "phone" -> c.phone
      [] field = "first_name" -> c.first_name
      [] field = "second_name" -> c.second_name
      [] field = "birth_date" -> c.birth_date

\* C12: each of the five single-field lookups returns either nothing or
\* one stored contact that the requester owns and whose field equals the
\* value asked; it returns nothing exactly when the requester owns no such
\* contact, whatever other users own.
C12_ByFieldOwnerScoped ==
    last.op = "GET /contacts/by_field" =>
        LET owned == {c \in contacts :
                        /\ c.user_id = last.user
                        /\ FieldOf(c, last.field) = last.value}
        IN  /\ last.contact = None <=> owned = {}
            /\ last.contact # None => last.contact \in owned

\* C12 witness: a single-field lookup returned nothing although another
\* user owns a contact with the value asked.
C12_Witness ==
    /\ last.op = "GET /contacts/by_field"
    /\ last.contact = None
    /\ \E c \in contacts :
          /\ c.user_id # last.user
          /\ FieldOf(c, last.field) = last.value

\* The success status of each route that answers 404 for a missing contact.
SuccessStatus ==
    [op \in {"GET /contacts/{contact_id}", "GET /contacts/by_field",
             "PUT /contacts/{contact_id}"} |-> 200]
        @@ [op \in {"DELETE /contacts/{contact_id}"} |-> 204]

\* C13: a by-id read, a single-field read, a PUT or a DELETE whose handler
\* called the store answers 404 with detail "Not Found" exactly when the
\* store returned nothing, and otherwise the route's success status (200,
\* or 204 for DELETE).
C13_NotFoundIffAbsent ==
    (last.op \in DOMAIN SuccessStatus /\ last.called) =>
        IF last.contact = None
        THEN last.status = 404 /\ last.detail = "Not Found"
        ELSE last.status = SuccessStatus[last.op] /\ last.detail = None

\* C13 witness: a DELETE of another user's stored contact answered 404.
C13_Witness ==
    /\ last.op = "DELETE /contacts/{contact_id}"
    /\ last.status = 404
    /\ \E c \in contacts : c.id = last.contact_id /\ c.user_id # last.user

\* C17: confirmed_email for the email of a stored user sets that user's
\* confirmed flag and changes nothing else in the user table; for an email
\* no user has, it changes nothing.  A created user is unconfirmed, and no
\* update_token, update_avatar or confirmed_email unsets the flag of a
\* confirmed user.
C17_ConfirmOnlyMatching ==
    /\ last.op = "confirmed_email" =>
          LET hit == {u \in last.users_before : u.email = last.value}
          IN  IF hit = {}
              THEN users = last.users_before
              ELSE \E u \in hit :
                      users = (last.users_before \ {u})
                                  \cup {[u EXCEPT !.confirmed = TRUE]}
    /\ last.op = "create_user" =>
          last.result \in users /\ last.result.confirmed = FALSE
    /\ last.op \in {"update_token", "update_avatar", "confirmed_email"} =>
          \A u \in last.users_before :
              u.confirmed => \E v \in users : v.id = u.id /\ v.confirmed

\* C17 witness: confirmed_email confirmed one user, holding a refresh
\* token of their own, while another user stayed unconfirmed.
C17_Witness ==
    /\ last.op = "confirmed_email"
    /\ \E u \in last.users_before :
          /\ u.email = last.value
          /\ ~u.confirmed
          /\ u.refresh_token # None
    /\ \E v \in users : v.email # last.value /\ ~v.confirmed

\* C14 as stated: a request to any endpoint without a valid bearer token
\* is rejected and reaches neither store nor storage, and every read
\* endpoint answers under the rate limit.
C14_AllRequireBearerReadsLimited ==
    last.op = "request" =>
        /\ get_current_user(last.bearer) = None =>
              last.status \in {401, 429} /\ ~last.called
        /\ last.handler \in ReadEndpoints => last.limited

\* C14, amended: a request to a /contacts endpoint without a valid bearer
\* token is rejected (401, or 429 by the limiter) and reaches no store;
\* the health check asks for no bearer token and probes the storage for any
\* caller; of all endpoints only the list endpoint GET /contacts/ answers
\* under the rate limit, which lets at most `times` requests through per
\* window.
C14_ContactsRequireBearerListLimited ==
    /\ window <= times
    /\ last.op = "request" =>
          /\ (last.handler \in ContactEndpoints
                 /\ get_current_user(last.bearer) = None) =>
                /\ last.status \in {401, 429}
                /\ ~last.called
                /\ contacts = last.before
          /\ last.handler = "healthchecker" =>
                last.called /\ last.status \in {200, 500}
          /\ last.limited <=> last.handler = "get_contacts"
          /\ last.status = 429 => last.limited /\ window = times

\* C14 witness: a /contacts request without a bearer token was answered
\* 401 while a contact was stored.
C14_Witness ==
    /\ last.op = "request"
    /\ last.handler = "remove_contact"
    /\ last.bearer = None
    /\ last.status = 401
    /\ contacts # {}

\* C15: a storage failure during a request to a /contacts endpoint is
\* answered 500 or 503; the health check answers 200 with the message
\* "Welcome to FastAPI!" when its probe returns a row and 500 otherwise.
C15_StorageFailure5xx ==
    last.op = "request" =>
        /\ (last.handler \in ContactEndpoints
               /\ last.called /\ last.storage = "error") =>
              last.status \in {500, 503}
        /\ (last.handler = "healthchecker" /\ last.called) =>
              IF last.storage = "row"
              THEN /\ last.status = 200
                   /\ last.result = [message |-> "Welcome to FastAPI!"]
              ELSE last.status = 500

\* C18: every request has a session of its own, made for it and shared
\* with no other request; the session of a finished request is closed,
\* whether the request ended with a normal return, a 404 or a storage
\* error; and no session is open except those of requests still running.
C18_SessionPerRequestClosed ==
    /\ \A i \in DOMAIN handlers :
          /\ handlers[i].db \in DOMAIN sessions
          /\ handlers[i].pc = "done" => ~sessions[handlers[i].db].open
          /\ handlers[i].pc # "done" => sessions[handlers[i].db].open
          /\ \A j \in DOMAIN handlers :
                i # j => handlers[i].db # handlers[j].db
    /\ \A k \in DOMAIN sessions :
          sessions[k].open =>
              \E i \in DOMAIN handlers :
                  handlers[i].db = k /\ handlers[i].pc # "done"

\* C18 witness: one request ended 404 and another on a storage error,
\* both finished.
C18_Witness ==
    \E i \in DOMAIN handlers : \E j \in DOMAIN handlers :
        /\ handlers[i].pc = "done" /\ handlers[i].status = 404
        /\ handlers[j].pc = "done"
        /\ handlers[j].status \in StorageErrorStatus
        /\ handlers[j].contact # None

\* C16: once two updates of the same contact by its owner have both
\* completed, the five fields of the stored contact all equal the body of
\* one of the two requests.
C16_LastWriterWins ==
    \A i \in DOMAIN handlers : \A j \in DOMAIN handlers :
        (/\ i # j
         /\ Len(handlers) = 2
         /\ handlers[i].pc = "done" /\ handlers[i].status = 200
         /\ handlers[j].pc = "done" /\ handlers[j].status = 200
         /\ handlers[i].contact_id = handlers[j].contact_id) =>
            \A c \in contacts :
                c.id = handlers[i].contact_id =>
                    Fields(c) \in {handlers[i].body, handlers[j].body}

====
